---- MODULE Spec2Model ----
(***************************************************************************)
(* A model of the two algorithmic cores of VAST:                           *)
(*   - combine_holes (src/hole_combine.py): greedy selection of maximal    *)
(*     spheres and assignment of the remaining spheres as holes;           *)
(*   - Zobov.sortVoids (src/python/vast/vsquared/zobov.py): selection of   *)
(*     void candidates, radius filter and the zone-to-void map.            *)
(* Lengths and volumes are exact integers (no floating point rounding).    *)
(* Python indices are kept 0-based; TLA+ sequences are 1-based, so row i   *)
(* of a table t is t[i+1].                                                 *)
(***************************************************************************)
EXTENDS Integers, Sequences, FiniteSets, TLC

VARIABLES
    \* ---- combine_holes ----
    spheres_table,            \* the input table: rows [x, y, z, radius]
    frac,                     \* the overlap fraction, a rational <<num, den>>
    pc,                       \* position in combine_holes
    i,                        \* the loop index of the running loop
    maximal_spheres_indices,  \* indices accepted as maximal, in order
    holes_indices,            \* indices accepted as holes, in order
    flag,                     \* spheres_table['flag'], one per row
    returned,                 \* what the caller receives
    \* ---- Zobov.sortVoids ----
    self,                     \* the Zobov instance: attribute name -> value
    zpc,                      \* position in sortVoids
    method,                   \* the method argument of the running call
    voids,                    \* the local voids: void candidates (zone lists)
    vcuts,                    \* the local vcuts: the cells of each candidate
    vvols,                    \* the local vvols
    vrads,                    \* the local vrads (as radius cubed)
    vcens,                    \* the local vcens
    vaxes,                    \* the local vaxes
    zvoid,                    \* the local zvoid: one <<primary, secondary>> per zone
    step,                     \* how many (i, j) pairs the zvoid loops have done
    outcome,                  \* what the caller of sortVoids receives
    calls,                    \* how many sortVoids calls the instance has had
    \* ---- Zobov.__init__ ----
    config,                   \* the settings of the configuration file
    args,                     \* start, end, save_intermediate, visualize, periodic
    ipc,                      \* position in __init__
    locals,                   \* the locals ctlg, tess, zones, voids of __init__
    events,                   \* the loads, builds, dumps and assignments made, in order
    files,                    \* the checkpoint files that exist
    console                   \* what __init__ has printed

hvars == <<spheres_table, frac, pc, i, maximal_spheres_indices, holes_indices,
           flag, returned>>

zvars == <<self, zpc, method, voids, vcuts, vvols, vrads, vcens, vaxes, zvoid,
           step, outcome>>

ivars == <<calls, config, args, ipc, locals, events, files, console>>

vars == <<hvars, zvars, ivars>>

\* No Zobov instance is under construction.
ConstructIdle ==
    /\ args = <<>>
    /\ ipc = "idle"
    /\ locals = <<>>
    /\ events = <<>>
    /\ files = {}
    /\ console = <<>>

----------------------------------------------------------------------------
(* Bounds of the model *)

\* the longest candidate table
MaxSpheres == 3

(* Program constants *)

\* spheres_table['radius'] > 10
SeedRadius == 10

----------------------------------------------------------------------------
(* Inputs of combine_holes *)

\* A sphere whose centre is k steps along the direction (1,2,2): the distance
\* between two such centres is the integer 3*|k1-k2|, so the Euclidean norm
\* is exact.
Sph(k, r) == [x |-> k, y |-> 2 * k, z |-> 2 * k, radius |-> r]

\* The candidate spheres a table is drawn from.
SphereChoices ==
    { Sph(0, 14), Sph(8, 14), Sph(9, 11), Sph(0, 12), Sph(2, 12),
      Sph(1, 9), Sph(2, 8), Sph(0, 8), Sph(9, 13), Sph(17, 11), Sph(1, 15) }

\* The overlap fractions, as <<numerator, denominator>>, all in [0,1).
FracChoices == { <<0, 1>>, <<1, 10>>, <<9, 10>> }

Tables == UNION { [1..n -> SphereChoices] : n \in 1..MaxSpheres }

----------------------------------------------------------------------------
(* Geometry *)

Row(t, k) == t[k + 1]

\* The integer square root of a perfect square.
Sqrt(n) == CHOOSE d \in 0..n : d * d = n

\* np.linalg.norm(a - b): the distance between the centres of rows a and b.
separation(a, b) ==
    Sqrt((a.x - b.x) * (a.x - b.x) + (a.y - b.y) * (a.y - b.y)
         + (a.z - b.z) * (a.z - b.z))

Cube(n) == n * n * n

\* overlap_volume, for sphere_i_radius r, a maximal sphere of radius R and
\* centre distance d > 0, in units of pi/(12 d):
\*   spherical_cap_volume(r, cap_height(r, R, d))
\*     + spherical_cap_volume(R, cap_height(R, r, d))
\* With h_i = (R-r+d)(R+r-d)/(2d) and h_m = (r-R+d)(r+R-d)/(2d) the sum
\*   pi h_i^2 (3r - h_i)/3 + pi h_m^2 (3R - h_m)/3
\* is identically  pi (R+r-d)^2 (d^2 + 2d(r+R) - 3(r-R)^2) / (12 d),
\* the form evaluated here (it keeps every intermediate within 32 bits).
overlap_volume(r, R, d) ==
    (R + r - d) * (R + r - d) * (d * d + 2 * d * (r + R) - 3 * (r - R) * (r - R))

\* volume_i = (4./3.)*pi*r**3 in the same units of pi/(12 d).
volume_i(r, d) == 16 * Cube(r) * d

\* A mutant of OverlapAtMostFrac: the volume of the maximal sphere is used
\* in place of the volume of sphere i.
OverlapAtMostFrac_MaximalVolume(r, R, d, f) ==
    /\ d /= 0
    /\ f[2] * overlap_volume(r, R, d) <= f[1] * volume_i(R, d)

\* A mutant of OverlapAtMostFrac: a strict comparison.
OverlapAtMostFrac_Strict(r, R, d, f) ==
    /\ d /= 0
    /\ f[2] * overlap_volume(r, R, d) < f[1] * volume_i(r, d)

\* overlap_volume <= frac*volume_i.  With d = 0 cap_height divides by zero,
\* overlap_volume is NaN and the comparison is False.
OverlapAtMostFrac(r, R, d, f) ==
    /\ d /= 0
    /\ f[2] * overlap_volume(r, R, d) <= f[1] * volume_i(r, d)

\* overlap_volume > 0.5*volume_i  (False for the NaN of d = 0).
OverlapMoreThanHalf(r, R, d) ==
    /\ d /= 0
    /\ 2 * overlap_volume(r, R, d) > volume_i(r, d)

----------------------------------------------------------------------------
(* combine_holes *)

\* N_large_spheres = sum(spheres_table['radius'] > 10)
N_large_spheres(t) == Cardinality({k \in 1..Len(t) : t[k].radius > SeedRadius})

\* any((maximal_spheres_radii - sphere_i_radius) > separation)
InsideMaximal(t, k, ms) ==
    \E n \in 1..Len(ms) :
        Row(t, ms[n]).radius - Row(t, k).radius > separation(Row(t, ms[n]), Row(t, k))

\* overlap_boolean = separation <= (sphere_i_radius + maximal_spheres_radii)
overlap_boolean(t, k, m) ==
    separation(Row(t, m), Row(t, k)) <= Row(t, k).radius + Row(t, m).radius

\* A mutant of IsNewMaximal: any() in place of all().
IsNewMaximal_Any(t, k, ms, f) ==
    /\ ~InsideMaximal(t, k, ms)
    /\ \E n \in 1..Len(ms) :
           overlap_boolean(t, k, ms[n]) =>
               OverlapAtMostFrac(Row(t, k).radius, Row(t, ms[n]).radius,
                                 separation(Row(t, ms[n]), Row(t, k)), f)

\* One pass of the phase 1 loop body for sphere k: is k appended to
\* maximal_spheres_indices ?
IsNewMaximal(t, k, ms, f) ==
    /\ ~InsideMaximal(t, k, ms)
    /\ \A n \in 1..Len(ms) :
           overlap_boolean(t, k, ms[n]) =>
               OverlapAtMostFrac(Row(t, k).radius, Row(t, ms[n]).radius,
                                 separation(Row(t, ms[n]), Row(t, k)), f)

\* The positions n (0-based, as maximal_indices) of the maximal spheres that
\* sphere k overlaps by more than half of its volume: overlap2_boolean.
overlap2(t, k, ms) ==
    { n \in 0..(Len(ms) - 1) :
        /\ overlap_boolean(t, k, ms[n + 1])
        /\ OverlapMoreThanHalf(Row(t, k).radius, Row(t, ms[n + 1]).radius,
                               separation(Row(t, ms[n + 1]), Row(t, k))) }

\* A mutant of IsHole: sum(overlap2_boolean) >= 1.
IsHole_AtLeastOne(t, k, ms) ==
    /\ ~InsideMaximal(t, k, ms)
    /\ Cardinality(overlap2(t, k, ms)) >= 1

\* sum(overlap2_boolean) == 1
IsHole(t, k, ms) ==
    /\ ~InsideMaximal(t, k, ms)
    /\ Cardinality(overlap2(t, k, ms)) = 1

\* i in maximal_spheres_indices
InSeq(s, v) == \E n \in 1..Len(s) : s[n] = v

\* maximal_spheres_table['flag'] = np.arange(N_voids) + 1
MaximalFlag(ms, k) == CHOOSE n \in 1..Len(ms) : ms[n] = k

\* spheres_table[indices] with the flag column
Extract(t, fl, idx) ==
    [n \in 1..Len(idx) |->
        [x |-> Row(t, idx[n]).x, y |-> Row(t, idx[n]).y, z |-> Row(t, idx[n]).z,
         radius |-> Row(t, idx[n]).radius, flag |-> fl[idx[n] + 1]]]

\* No sortVoids call is modelled in the runs of combine_holes.
ZobovIdle ==
    /\ self = <<>>
    /\ zpc = "idle"
    /\ method = -1
    /\ voids = <<>>
    /\ vcuts = <<>>
    /\ vvols = <<>>
    /\ vrads = <<>>
    /\ vcens = <<>>
    /\ vaxes = <<>>
    /\ zvoid = <<>>
    /\ step = 0
    /\ outcome = [value |-> "none", printed |-> <<>>]

InitHoles ==
    /\ spheres_table \in Tables
    /\ frac \in FracChoices
    /\ pc = "phase1"
    /\ i = 1
    /\ maximal_spheres_indices = <<0>>
    /\ holes_indices = <<>>
    /\ flag = <<>>
    /\ returned = [kind |-> "running"]
    /\ ZobovIdle
    /\ ConstructIdle
    /\ calls = 0
    /\ config = <<>>

\* for i in range(1, N_large_spheres): one iteration
Phase1Step ==
    /\ pc = "phase1"
    /\ i < N_large_spheres(spheres_table)
    /\ maximal_spheres_indices' =
           IF IsNewMaximal(spheres_table, i, maximal_spheres_indices, frac)
           THEN Append(maximal_spheres_indices, i)
           ELSE maximal_spheres_indices
    /\ i' = i + 1
    /\ UNCHANGED <<spheres_table, frac, pc, holes_indices, flag, returned>>
    /\ UNCHANGED <<zvars, ivars>>

\* The loop is exhausted: the maximal table is extracted and
\* spheres_table['flag'] = -1.
Phase1End ==
    /\ pc = "phase1"
    /\ i >= N_large_spheres(spheres_table)
    /\ flag' = [n \in 1..Len(spheres_table) |-> -1]
    /\ pc' = "phase2"
    /\ i' = 0
    /\ UNCHANGED <<spheres_table, frac, maximal_spheres_indices, holes_indices,
                   returned>>
    /\ UNCHANGED <<zvars, ivars>>

\* for i in range(N_spheres): one iteration
Phase2Step ==
    /\ pc = "phase2"
    /\ i < Len(spheres_table)
    /\ IF InSeq(maximal_spheres_indices, i)
       THEN /\ flag' = [flag EXCEPT ![i + 1] = MaximalFlag(maximal_spheres_indices, i)]
            /\ UNCHANGED holes_indices
       ELSE IF IsHole(spheres_table, i, maximal_spheres_indices)
       THEN /\ holes_indices' = Append(holes_indices, i)
            /\ flag' = [flag EXCEPT ![i + 1] =
                   1 + (CHOOSE n \in overlap2(spheres_table, i, maximal_spheres_indices) : TRUE)]
       ELSE UNCHANGED <<holes_indices, flag>>
    /\ i' = i + 1
    /\ UNCHANGED <<spheres_table, frac, pc, maximal_spheres_indices, returned>>
    /\ UNCHANGED <<zvars, ivars>>

\* return maximal_spheres_table, holes_table
Return ==
    /\ pc = "phase2"
    /\ i >= Len(spheres_table)
    /\ pc' = "done"
    /\ returned' =
           [kind |-> "tables",
            maximal_spheres_table |->
                Extract(spheres_table,
                        [n \in 1..Len(spheres_table) |->
                            IF InSeq(maximal_spheres_indices, n - 1)
                            THEN MaximalFlag(maximal_spheres_indices, n - 1) ELSE -1],
                        maximal_spheres_indices),
            holes_table |-> Extract(spheres_table, flag, holes_indices)]
    /\ UNCHANGED <<spheres_table, frac, i, maximal_spheres_indices, holes_indices, flag>>
    /\ UNCHANGED <<zvars, ivars>>

NextHoles == Phase1Step \/ Phase1End \/ Phase2Step \/ Return

SpecHoles == InitHoles /\ [][NextHoles]_vars

----------------------------------------------------------------------------
(* Properties of combine_holes *)

Indices == 0..(Len(spheres_table) - 1)

MaximalSet == { maximal_spheres_indices[n] : n \in 1..Len(maximal_spheres_indices) }

HoleSet == { holes_indices[n] : n \in 1..Len(holes_indices) }

Radius(k) == Row(spheres_table, k).radius

Distance(a, b) == separation(Row(spheres_table, a), Row(spheres_table, b))

\* the table is sorted by descending radius
SortedDesc(t) == \A n \in 1..(Len(t) - 1) : t[n].radius >= t[n + 1].radius

\* sphere b is fully contained in sphere a: d + rB <= rA
FullyContained(b, a) == Distance(a, b) + Radius(b) <= Radius(a)

\* C1 as stated: in a radius-descending table, a sphere fully contained in
\* another candidate sphere is never in the maximal-sphere table, whether or
\* not the containing sphere is itself maximal (stated here for two spheres
\* at distinct centres, which is enough to refute it).
C1_ContainedNeverMaximal ==
    (pc = "done" /\ SortedDesc(spheres_table)) =>
        \A a \in Indices : \A b \in Indices \ {a} :
            (FullyContained(b, a) /\ Distance(a, b) > 0) => b \notin MaximalSet

\* C1 as amended: in a radius-descending table, a sphere fully contained in
\* another candidate sphere that was accepted as maximal is never in the
\* maximal-sphere table.
C1_ContainedInMaximalNeverMaximal ==
    SortedDesc(spheres_table) =>
        \A a \in MaximalSet : \A b \in Indices \ {a} :
            FullyContained(b, a) => b \notin MaximalSet

\* C1 witness: a finished run on a sorted table in which a sphere above the seed
\* radius lies inside a maximal sphere at a distinct centre, and is not maximal.
C1_Witness ==
    /\ pc = "done"
    /\ SortedDesc(spheres_table)
    /\ \E a \in MaximalSet : \E b \in Indices \ {a} :
           /\ FullyContained(b, a)
           /\ Distance(a, b) > 0
           /\ Radius(b) > SeedRadius
           /\ b \notin MaximalSet

\* The maximal spheres that sphere k intersects and overlaps by more than
\* half of its own volume.
HalfOverlapped(k) ==
    { m \in MaximalSet :
        /\ Distance(m, k) <= Radius(k) + Radius(m)
        /\ OverlapMoreThanHalf(Radius(k), Radius(m), Distance(m, k)) }

\* the row of the returned holes table that holds sphere k
HoleRow(k) ==
    returned.holes_table[CHOOSE n \in 1..Len(holes_indices) : holes_indices[n] = k]

\* the row of the returned maximal-sphere table that holds sphere m
MaximalRow(m) ==
    returned.maximal_spheres_table[
        CHOOSE n \in 1..Len(maximal_spheres_indices) : maximal_spheres_indices[n] = m]

AllLargeAndApart ==
    /\ \A k \in Indices : Radius(k) > SeedRadius
    /\ \A a \in Indices : \A b \in Indices \ {a} :
           Distance(a, b) >= Radius(a) + Radius(b)

\* C3: for a radius-descending table of spheres above the seed radius that
\* are pairwise non-overlapping or tangent, every sphere is returned as
\* maximal, with void ids 1..n in input order, and no holes are returned.
C3_ApartAllMaximal ==
    (pc = "done" /\ SortedDesc(spheres_table) /\ AllLargeAndApart) =>
        /\ Len(returned.maximal_spheres_table) = Len(spheres_table)
        /\ \A n \in 1..Len(spheres_table) :
               returned.maximal_spheres_table[n] =
                   [x |-> spheres_table[n].x, y |-> spheres_table[n].y,
                    z |-> spheres_table[n].z, radius |-> spheres_table[n].radius,
                    flag |-> n]
        /\ returned.holes_table = <<>>

\* C3 witness: three spheres, two pairs of them externally tangent.
C3_Witness ==
    /\ pc = "done"
    /\ SortedDesc(spheres_table)
    /\ AllLargeAndApart
    /\ Len(spheres_table) = 3
    /\ \E a \in Indices : \E b \in Indices \ {a} :
           Distance(a, b) = Radius(a) + Radius(b)

\* C4 as stated: every sphere of the returned maximal-sphere table has a
\* radius above the seed radius.
C4_MaximalAboveSeedRadius ==
    (pc = "done" /\ SortedDesc(spheres_table)) =>
        \A n \in 1..Len(returned.maximal_spheres_table) :
            returned.maximal_spheres_table[n].radius > SeedRadius

\* C5: at every step, for two accepted maximal spheres m (earlier) and k
\* (later), k is not entirely inside m, and if they intersect the overlap
\* volume of k with m is at most frac times the volume of k.
C5_MaximalPairwise ==
    \A a \in 1..Len(maximal_spheres_indices) :
        \A b \in (a + 1)..Len(maximal_spheres_indices) :
            LET m == maximal_spheres_indices[a]
                k == maximal_spheres_indices[b]
            IN  /\ ~ (Radius(m) - Radius(k) > Distance(m, k))
                /\ Distance(m, k) <= Radius(k) + Radius(m) =>
                       OverlapAtMostFrac(Radius(k), Radius(m), Distance(m, k), frac)

\* C5 witness: during phase 1, two accepted maximal spheres that properly
\* intersect (a positive overlap below the allowed fraction).
C5_Witness ==
    /\ pc = "phase1"
    /\ \E a \in 1..Len(maximal_spheres_indices) :
        \E b \in (a + 1)..Len(maximal_spheres_indices) :
            Distance(maximal_spheres_indices[a], maximal_spheres_indices[b])
                < Radius(maximal_spheres_indices[a]) + Radius(maximal_spheres_indices[b])

\* The table re-sorted by descending radius (a stable insertion sort).
RECURSIVE InsertByRadius(_, _)
InsertByRadius(t, row) ==
    IF t = <<>> THEN <<row>>
    ELSE IF Head(t).radius >= row.radius
         THEN <<Head(t)>> \o InsertByRadius(Tail(t), row)
         ELSE <<row>> \o t

RECURSIVE SortByRadius(_)
SortByRadius(t) ==
    IF t = <<>> THEN <<>>
    ELSE InsertByRadius(SortByRadius(SubSeq(t, 1, Len(t) - 1)), t[Len(t)])

\* The maximal spheres a run over table t accepts, from sphere k on.
RECURSIVE MaximalFrom(_, _, _, _)
MaximalFrom(t, f, k, ms) ==
    IF k >= N_large_spheres(t) THEN ms
    ELSE MaximalFrom(t, f, k + 1,
                     IF IsNewMaximal(t, k, ms, f) THEN Append(ms, k) ELSE ms)

\* The spheres (as rows, flags left out) a run over table t returns as
\* maximal and as holes.
TablesOf(t, f) ==
    LET ms == MaximalFrom(t, f, 1, <<0>>)
    IN  [maximal |-> [n \in 1..Len(ms) |-> Row(t, ms[n])],
         holes   |-> { Row(t, k) : k \in { j \in 0..(Len(t) - 1) :
                                             ~InSeq(ms, j) /\ IsHole(t, j, ms) } }]

\* C6 as stated: a table that is not sorted by descending radius is rejected,
\* or re-sorted: the tables returned are never those of the unsorted order
\* unless they are also those of the re-sorted table.
C6_UnsortedRejectedOrResorted ==
    (pc = "done" /\ ~SortedDesc(spheres_table)) =>
        \/ returned.kind = "rejected"
        \/ /\ returned.kind = "tables"
           /\ LET sorted == TablesOf(SortByRadius(spheres_table), frac)
              IN  /\ [n \in 1..Len(maximal_spheres_indices) |->
                         Row(spheres_table, maximal_spheres_indices[n])]
                     = sorted.maximal
                  /\ { Row(spheres_table, k) : k \in HoleSet } = sorted.holes

----------------------------------------------------------------------------
(* Inputs of Zobov.sortVoids *)

\* the most entries of the void hierarchy self.prevoids
MaxEntries == 3

\* the largest number of sortVoids calls made on one instance
MaxCalls == 2

\* self.zones.zcell: the cells of each zone (cells are 0..4).
ZoneLayouts ==
    { << <<0, 1>>, <<2>>, <<3, 4>> >>,
      << <<0, 1>>, <<2>>, <<3>>, <<4>> >> }

\* self.tesselation.volumes, one per cell, in units of 4 pi.
VolumeChoices ==
    { <<1, 1, 2, 3, 1>>, <<2, 2, 2, 2, 2>>, <<0, 1, 1, 3, 1>>, <<1, 2, 1, 2, 5>> }

\* One entry i of the hierarchy: prevoids.voids[i] (the zones of each merge
\* level), prevoids.ovols[i] (one volume per level and a closing one) and
\* prevoids.mvols[i].  Volumes in units of 4 pi.
EntryChoices ==
    { [voids |-> << <<0>> >>,               ovols |-> <<2, 20>>,        mvols |-> 40],
      [voids |-> << <<1>>, <<0>>, <<2>> >>, ovols |-> <<2, 20, 8, 20>>, mvols |-> 20],
      [voids |-> << <<2>>, <<1>>, <<0>> >>, ovols |-> <<2, 2, 20, 20>>, mvols |-> 30],
      [voids |-> << <<1>>, <<0, 2>> >>,     ovols |-> <<20, 10, 4>>,    mvols |-> 6] }

Hierarchies == UNION { [1..n -> EntryChoices] : n \in 1..MaxEntries }

\* radius_min of the configuration file
RadiusMinChoices == { 1, 2 }

\* The cells whose galaxy lies within a quarter of the effective radius of the
\* centre of every candidate that holds the cell (what inSphere reports).
CrowdedChoices == { {}, {2} }

\* the stage the instance was built up to (the end argument of __init__)
StageEnds == 0..4

\* the method argument: 0, 1, 2, 4 are implemented, 3 is announced, 5 is unknown
Methods == 0..5

\* the dc argument (its default 0.2) as <<numerator, denominator>>
dc == <<1, 5>>

----------------------------------------------------------------------------
(* Helpers of sortVoids *)

HasAttr(obj, name) == name \in DOMAIN obj

SetAttr(obj, name, val) ==
    [a \in (DOMAIN obj) \cup {name} |-> IF a = name THEN val ELSE obj[a]]

\* the concatenation of a sequence of sequences
RECURSIVE Concat(_)
Concat(ss) == IF ss = <<>> THEN <<>> ELSE Head(ss) \o Concat(Tail(ss))

RECURSIVE SumSeq(_)
SumSeq(q) == IF q = <<>> THEN 0 ELSE Head(q) + SumSeq(Tail(q))

\* the indices n <= k (1-based) with b[n] true, in order
RECURSIVE KeptUpTo(_, _)
KeptUpTo(b, k) ==
    IF k = 0 THEN <<>>
    ELSE KeptUpTo(b, k - 1) \o (IF b[k] THEN <<k>> ELSE <<>>)

\* q[b] for a boolean array b (numpy boolean indexing)
Mask(q, b) ==
    LET kept == KeptUpTo(b, Len(b))
    IN  [n \in 1..Len(kept) |-> q[kept[n]]]

\* minvol = np.mean(volumes[volumes>0])/dc, the rational <<num, den>>
minvol(volumes) ==
    LET pos == { c \in 1..Len(volumes) : volumes[c] > 0 }
    IN  << SumSeq([c \in 1..Len(volumes) |-> volumes[c]]) * dc[2],
           Cardinality(pos) * dc[1] >>

\* vl[j] < minvol
BelowMinvol(v, mv) == v * mv[2] < mv[1]

RECURSIVE VideLevels(_, _, _, _)

\* A mutant of VideLevels: level 0 is not exempt from the bound.
VideLevels_NoExemption(vl, levels, j, mv) ==
    IF j >= Len(vl) - 1 THEN <<>>
    ELSE IF BelowMinvol(vl[j + 1], mv) THEN <<>>
    ELSE levels[j + 1] \o VideLevels(vl, levels, j + 1, mv)

\* Method 0, for one entry: for j in range(len(vl)-1): stop at the first
\* j > 0 with vl[j] < minvol, else extend by voids[i][j].
VideLevels(vl, levels, j, mv) ==
    IF j >= Len(vl) - 1 THEN <<>>
    ELSE IF j > 0 /\ BelowMinvol(vl[j + 1], mv) THEN <<>>
    ELSE levels[j + 1] \o VideLevels(vl, levels, j + 1, mv)

\* Method 2: stats.norm.isf(P(r)/2.) >= minsig for r = vh / vl.  P falls and
\* the significance rises with r, so the test is a threshold on the ratio,
\* here r >= 3/2.
Significant(vh, vl) == 2 * vh >= 3 * vl

\* the candidates selected by method m (lines 142-179)
SelectCandidates(m, obj) ==
    IF m = 0 THEN
        [n \in 1..Len(obj.prevoids) |->
            VideLevels(obj.prevoids[n].ovols, obj.prevoids[n].voids, 0,
                       minvol(obj.tesselation.volumes))]
    ELSE IF m = 1 THEN
        [n \in 1..Len(obj.prevoids) |-> Concat(obj.prevoids[n].voids)]
    ELSE IF m = 2 THEN
        LET sig == [n \in 1..Len(obj.prevoids) |->
                       Significant(obj.prevoids[n].mvols,
                                   obj.prevoids[n].ovols[Len(obj.prevoids[n].ovols)])]
        IN  Mask([n \in 1..Len(obj.prevoids) |-> Concat(obj.prevoids[n].voids)], sig)
    ELSE
        [n \in 1..Len(obj.zones.zvols) |-> <<n - 1>>]

\* list(flatten(self.zones.zcell[v]))
CellsOf(v, zcell) == Concat([n \in 1..Len(v) |-> zcell[v[n] + 1]])

\* np.sum(self.tesselation.volumes[vcut])
VolumeOf(vcut, volumes) == SumSeq([n \in 1..Len(vcut) |-> volumes[vcut[n] + 1]])

\* vrads = (vvols*3/(4*np.pi))**(1/3): a radius is held as its cube, which
\* for a volume of v units of 4 pi is 3 v.
RadiusCubed(v) == 3 * v

\* q sorted ascending (insertion sort)
RECURSIVE InsertAsc(_, _)
InsertAsc(q, v) ==
    IF q = <<>> THEN <<v>>
    ELSE IF Head(q) <= v THEN <<Head(q)>> \o InsertAsc(Tail(q), v)
    ELSE <<v>> \o q

RECURSIVE SortAsc(_)
SortAsc(q) ==
    IF q = <<>> THEN <<>>
    ELSE InsertAsc(SortAsc(Tail(q)), Head(q))

\* np.median(vrads): the middle radius, or the mean of the two middle radii.
\* A threshold radius is held as the pair <<a, b>> of cubes that stands for
\* (a^(1/3) + b^(1/3))/2.
Median(rads) ==
    LET q == SortAsc(rads)
    IN  << q[(Len(q) + 1) \div 2], q[(Len(q) \div 2) + 1] >>

\* float(config['Settings']['radius_min'])
ConfiguredMinrad(r) == << Cube(r), Cube(r) >>

\* r > t for a radius of cube c and a threshold t = (a^(1/3) + b^(1/3))/2:
\* 2 c^(1/3) > a^(1/3) + b^(1/3)  iff  8c - a - b > 6 (a b c)^(1/3)
RadiusGreater(c, t) ==
    /\ 8 * c - t[1] - t[2] > 0
    /\ Cube(8 * c - t[1] - t[2]) > 216 * t[1] * t[2] * c

\* A mutant of rcut: vrads >= self.minrad.
rcut_AtLeast(rads, t) ==
    [n \in 1..Len(rads) |->
        /\ 8 * rads[n] - t[1] - t[2] >= 0
        /\ Cube(8 * rads[n] - t[1] - t[2]) >= 216 * t[1] * t[2] * rads[n]]

\* rcut = vrads > self.minrad
rcut(rads, t) == [n \in 1..Len(rads) |-> RadiusGreater(rads[n], t)]

\* wCen(self.tesselation.volumes[vcut], cutco[vcut]): the weighted centre of
\* the cells vcut, held as the cells it is computed from.
wCen(vcut) == [centre_of |-> vcut]

\* getSMA(vrads[i], cutco[vcuts[i]]): the axes, held as the radius and the
\* cells they are computed from.
getSMA(rad, vcut) == [radius |-> rad, cells |-> vcut]

\* len(cutco[inSphere(vcens[i], vrads[i]/4., cutco)])
inSphereCount(vcut, catalog) ==
    Cardinality({ n \in 1..Len(vcut) : vcut[n] \in catalog.crowded })

\* dcut: 64.*count/vvols[i] < 1./minvol  (False for the NaN or inf of vvols = 0)
dcut(cuts, vols, catalog, mv) ==
    [n \in 1..Len(vols) |->
        /\ vols[n] > 0
        /\ 64 * inSphereCount(cuts[n], catalog) * mv[1] < vols[n] * mv[2]]

\* rcut = vrads > (minvol*dc)**(1./3): the radius cubed 3W against the mean
\* cell volume 4 pi S/N.  3 W N > 4 pi S is decided with pi = 355/113, which
\* is exact for integers while 0 < S < 113.
rcut2(rads, volumes) ==
    LET pos == { c \in 1..Len(volumes) : volumes[c] > 0 }
        S   == SumSeq([c \in 1..Len(volumes) |-> volumes[c]])
    IN  [n \in 1..Len(rads) |->
            /\ Cardinality(pos) > 0
            /\ rads[n] * Cardinality(pos) * 113 > 4 * 355 * S]

\* the (i, j) pairs of the zvoid loops, in order: <<candidate index, zone>>
ZvoidPairs(vs) ==
    Concat([n \in 1..Len(vs) |-> [m \in 1..Len(vs[n]) |-> <<n - 1, vs[n][m]>>]])

\* A mutant of ZvoidUpdate: the secondary is never replaced.
ZvoidUpdate_PrimaryOnly(zv, vs, ci, j) ==
    IF zv[j + 1][1] > -1
    THEN IF Len(vs[ci + 1]) < Len(vs[zv[j + 1][1] + 1])
         THEN [zv EXCEPT ![j + 1] = <<ci, zv[j + 1][2]>>]
         ELSE zv
    ELSE [zv EXCEPT ![j + 1] = <<ci, ci>>]

\* the body of the zvoid loops for candidate ci and its zone j (lines 231-238)
ZvoidUpdate(zv, vs, ci, j) ==
    IF zv[j + 1][1] > -1
    THEN IF Len(vs[ci + 1]) < Len(vs[zv[j + 1][1] + 1])
         THEN [zv EXCEPT ![j + 1] = <<ci, zv[j + 1][2]>>]
         ELSE IF Len(vs[ci + 1]) > Len(vs[zv[j + 1][2] + 1])
         THEN [zv EXCEPT ![j + 1] = <<zv[j + 1][1], ci>>]
         ELSE zv
    ELSE [zv EXCEPT ![j + 1] = <<ci, ci>>]

----------------------------------------------------------------------------
(* Zobov.sortVoids *)

\* The instance after __init__(start, end): catalog and the settings always,
\* tesselation if end > 0, zones if end > 1, prevoids if end > 2.
Instance(end, rmin, crowded, volumes, zcell, hierarchy) ==
    LET a0 == [catalog |-> [crowded |-> crowded], minrad |-> ConfiguredMinrad(rmin)]
        a1 == IF end > 0 THEN SetAttr(a0, "tesselation", [volumes |-> volumes]) ELSE a0
        a2 == IF end > 1
              THEN SetAttr(a1, "zones",
                      [zcell |-> zcell,
                       zvols |-> [z \in 1..Len(zcell) |-> VolumeOf(zcell[z], volumes)]])
              ELSE a1
    IN  IF end > 2 THEN SetAttr(a2, "prevoids", hierarchy) ELSE a2

\* No combine_holes call is modelled in the runs of sortVoids.
HolesIdle ==
    /\ spheres_table = <<>>
    /\ frac = <<0, 1>>
    /\ pc = "idle"
    /\ i = 0
    /\ maximal_spheres_indices = <<>>
    /\ holes_indices = <<>>
    /\ flag = <<>>
    /\ returned = [kind |-> "idle"]

InitZobov ==
    /\ HolesIdle
    /\ ConstructIdle
    /\ \E end \in StageEnds, rmin \in RadiusMinChoices, crowded \in CrowdedChoices,
          volumes \in VolumeChoices, zcell \in ZoneLayouts, hierarchy \in Hierarchies :
           /\ self = Instance(end, rmin, crowded, volumes, zcell, hierarchy)
           /\ config = [radius_min |-> rmin]
    /\ calls = 1
    /\ zpc = "ready"
    /\ method = -1
    /\ voids = <<>>
    /\ vcuts = <<>>
    /\ vvols = <<>>
    /\ vrads = <<>>
    /\ vcens = <<>>
    /\ vaxes = <<>>
    /\ zvoid = <<>>
    /\ step = 0
    /\ outcome = [value |-> "none", printed |-> <<>>]

\* sortVoids(method=m): the guard on the stages (lines 130-137) and the
\* selection of the candidates (lines 142-183).
Select(m) ==
    /\ zpc = "ready"
    /\ method' = m
    /\ IF ~HasAttr(self, "prevoids") /\ (m /= 4 \/ ~HasAttr(self, "zones"))
       THEN /\ outcome' = [value |-> "None", printed |-> <<"Run all stages of Zobov first">>]
            /\ zpc' = "returned"
            /\ UNCHANGED voids
       ELSE IF m \in {0, 1, 2, 4}
       THEN /\ voids' = SelectCandidates(m, self)
            /\ outcome' = [value |-> "none", printed |-> <<"Selecting void candidates...">>]
            /\ zpc' = "selected"
       ELSE /\ outcome' = [value |-> "None",
                           printed |-> << "Selecting void candidates...",
                                          IF m = 3 THEN "Method 3 coming soon"
                                                   ELSE "Choose a valid method" >>]
            /\ zpc' = "returned"
            /\ UNCHANGED voids
    /\ UNCHANGED <<self, vcuts, vvols, vrads, vcens, vaxes, zvoid, step>>
    /\ UNCHANGED <<hvars, ivars>>

\* Volumes, radii, the radius filter, centres, the extra filters of method 0,
\* the axes and the empty zvoid (lines 187-227).
Measure ==
    /\ zpc = "selected"
    /\ \E volumes \in { self.tesselation.volumes } :
       \E cuts0 \in { [n \in 1..Len(voids) |-> CellsOf(voids[n], self.zones.zcell)] } :
       \E vols0 \in { [n \in 1..Len(voids) |-> VolumeOf(cuts0[n], volumes)] } :
       \E rads0 \in { [n \in 1..Len(voids) |-> RadiusCubed(vols0[n])] } :
       \E minrad1 \in { IF method = 4 THEN Median(rads0) ELSE self.minrad } :
       \E keep \in { rcut(rads0, minrad1) } :
       \E voids1 \in { Mask(voids, keep) } :
       \E cuts1 \in { Mask(cuts0, keep) } :
       \E vols1 \in { Mask(vols0, keep) } :
       \E rads1 \in { Mask(rads0, keep) } :
       \E cens1 \in { [n \in 1..Len(cuts1) |-> wCen(cuts1[n])] } :
       \E dkeep \in { dcut(cuts1, vols1, self.catalog, minvol(volumes)) } :
       \E rads2 \in { Mask(rads1, dkeep) } :
       \E rkeep \in { rcut2(rads2, volumes) } :
       \E rads3 \in { IF method = 0 THEN Mask(rads2, rkeep) ELSE rads1 } :
           /\ self'  = [self EXCEPT !.minrad = minrad1]
           /\ voids' = IF method = 0 THEN Mask(Mask(voids1, dkeep), rkeep) ELSE voids1
           /\ vcuts' = cuts1
           /\ vvols' = vols1
           /\ vrads' = rads3
           /\ vcens' = IF method = 0 THEN Mask(Mask(cens1, dkeep), rkeep) ELSE cens1
           /\ vaxes' = [n \in 1..Len(rads3) |-> getSMA(rads3[n], cuts1[n])]
           /\ zvoid' = [z \in 1..Len(self.zones.zvols) |-> <<-1, -1>>]
    /\ step' = 0
    /\ zpc' = "zvoid"
    /\ UNCHANGED <<method, outcome>>
    /\ UNCHANGED <<hvars, ivars>>

\* One pass of the body of the zvoid loops (lines 229-238).
ZvoidStep ==
    /\ zpc = "zvoid"
    /\ step < Len(ZvoidPairs(voids))
    /\ zvoid' = ZvoidUpdate(zvoid, voids, ZvoidPairs(voids)[step + 1][1],
                            ZvoidPairs(voids)[step + 1][2])
    /\ step' = step + 1
    /\ UNCHANGED <<self, zpc, method, voids, vcuts, vvols, vrads, vcens, vaxes, outcome>>
    /\ UNCHANGED <<hvars, ivars>>

\* self.vrads, self.vcens, self.vaxes, self.zvoid are set (lines 240-243).
Store ==
    /\ zpc = "zvoid"
    /\ step >= Len(ZvoidPairs(voids))
    /\ self' = SetAttr(SetAttr(SetAttr(SetAttr(self, "vrads", vrads), "vcens", vcens),
                               "vaxes", vaxes), "zvoid", zvoid)
    /\ outcome' = [outcome EXCEPT !.value = "None"]
    /\ zpc' = "returned"
    /\ UNCHANGED <<method, voids, vcuts, vvols, vrads, vcens, vaxes, zvoid, step>>
    /\ UNCHANGED <<hvars, ivars>>

NextZobov == (\E m \in Methods : Select(m)) \/ Measure \/ ZvoidStep \/ Store

SpecZobov == InitZobov /\ [][NextZobov]_vars

\* The caller calls sortVoids again on the same instance (line 109): the
\* locals of the call are fresh, the instance keeps what earlier calls set.
Call ==
    /\ zpc = "returned"
    /\ calls < MaxCalls
    /\ calls' = calls + 1
    /\ zpc' = "ready"
    /\ method' = -1
    /\ voids' = <<>>
    /\ vcuts' = <<>>
    /\ vvols' = <<>>
    /\ vrads' = <<>>
    /\ vcens' = <<>>
    /\ vaxes' = <<>>
    /\ zvoid' = <<>>
    /\ step' = 0
    /\ outcome' = [value |-> "none", printed |-> <<>>]
    /\ UNCHANGED <<self, config, args, ipc, locals, events, files, console>>
    /\ UNCHANGED hvars

NextCalls == NextZobov \/ Call

\* Any sequence of up to MaxCalls sortVoids calls on one instance.
SpecCalls == InitZobov /\ [][NextCalls]_vars

----------------------------------------------------------------------------
(* Zobov.__init__ *)

\* the values of start and end tried, valid and not
StageArgs == -1..5

\* the locals of the four stages, in order; "_<name>.pkl" is the checkpoint
Artifacts == << "ctlg", "tess", "zones", "voids" >>

\* the attribute each local is exposed as (lines 100-106)
Attributes == << "catalog", "tesselation", "zones", "prevoids" >>

\* the negation of the test of line 33
ValidStages(st, en) == st \in 0..4 /\ en \in 0..4 /\ ~(en < st)

\* A mutant of Builds: a stage is built whatever start is.
Builds_IgnoringStart(k, st, en) == k = 1 \/ en > k - 2

\* stage k is built: start is before it (the nested tests start<4 .. start<1)
\* and, but for the catalog, end reaches it (end>0, end>1, end>2)
Builds(k, st, en) == st < k /\ (k = 1 \/ en > k - 2)

\* the viz argument a stage is built with: Tesselation is given
\* self.visualize (line 77), Zones the raw argument visualize (line 84)
VizOf(k, obj, a) ==
    IF k = 2 THEN obj.visualize ELSE IF k = 3 THEN a.visualize ELSE FALSE

\* the call __init__(configfile, start, end, save_intermediate, visualize,
\* periodic) on a fresh instance; the checkpoints of the stages before start
\* exist, left by an earlier run
InitConstruct ==
    /\ HolesIdle
    /\ ZobovIdle
    /\ calls = 0
    /\ config \in [radius_min : RadiusMinChoices]
    /\ args \in [start : StageArgs, end : StageArgs, save_intermediate : BOOLEAN,
                 visualize : BOOLEAN, periodic : BOOLEAN]
    /\ ipc = "validate"
    /\ locals = <<>>
    /\ events = <<>>
    /\ files = { Artifacts[k] : k \in { j \in 1..4 : j <= args.start } }
    /\ console = <<>>

\* lines 33-35
Validate ==
    /\ ipc = "validate"
    /\ IF ValidStages(args.start, args.end)
       THEN /\ ipc' = "visualize"
            /\ UNCHANGED console
       ELSE /\ console' = Append(console, "Choose valid stages")
            /\ ipc' = "done"
    /\ UNCHANGED <<calls, config, args, locals, events, files>>
    /\ UNCHANGED <<hvars, zvars>>

\* lines 37-42: visualize*periodic prints and sets self.visualize to False
Visualize ==
    /\ ipc = "visualize"
    /\ IF args.visualize /\ args.periodic
       THEN /\ console' = Append(console,
                   "Visualization not implemented for periodic boundary conditions: changing to false")
            /\ self' = SetAttr(SetAttr(self, "visualize", FALSE), "periodic", args.periodic)
       ELSE /\ self' = SetAttr(SetAttr(self, "visualize", args.visualize),
                               "periodic", args.periodic)
            /\ UNCHANGED console
    /\ ipc' = "settings"
    /\ UNCHANGED <<calls, config, args, locals, events, files>>
    /\ UNCHANGED <<zpc, method, voids, vcuts, vvols, vrads, vcens, vaxes, zvoid, step,
                   outcome>>
    /\ UNCHANGED hvars

\* lines 44-64: the settings are read from the configuration file
Settings ==
    /\ ipc = "settings"
    /\ self' = SetAttr(self, "minrad", ConfiguredMinrad(config.radius_min))
    /\ ipc' = "ctlg"
    /\ UNCHANGED <<calls, config, args, locals, events, files, console>>
    /\ UNCHANGED <<zpc, method, voids, vcuts, vvols, vrads, vcens, vaxes, zvoid, step,
                   outcome>>
    /\ UNCHANGED hvars

\* lines 67-99, stage k: built (and pickled if save_intermediate), loaded
\* from its checkpoint, or left out
Stage(k) ==
    /\ ipc = Artifacts[k]
    /\ IF Builds(k, args.start, args.end)
       THEN /\ locals' = SetAttr(locals, Artifacts[k],
                                 [origin |-> "built", viz |-> VizOf(k, self, args)])
            /\ IF args.save_intermediate
               THEN /\ events' = events \o << <<"build", Artifacts[k]>>,
                                               <<"dump", Artifacts[k]>> >>
                    /\ files' = files \cup { Artifacts[k] }
               ELSE /\ events' = Append(events, <<"build", Artifacts[k]>>)
                    /\ UNCHANGED files
       ELSE IF ~(args.start < k)
       THEN /\ locals' = SetAttr(locals, Artifacts[k], [origin |-> "loaded", viz |-> FALSE])
            /\ events' = Append(events, <<"load", Artifacts[k]>>)
            /\ UNCHANGED files
       ELSE UNCHANGED <<locals, events, files>>
    /\ ipc' = IF k < 4 THEN Artifacts[k + 1] ELSE "assign"
    /\ UNCHANGED <<calls, config, args, console>>
    /\ UNCHANGED <<hvars, zvars>>

\* the attributes set by lines 100-106, in order
Exposed(en) == SelectSeq(<<1, 2, 3, 4>>, LAMBDA k : k = 1 \/ en > k - 2)

RECURSIVE AssignAll(_, _, _)
\* self.catalog = ctlg, self.tesselation = tess, ... for the stages ks
AssignAll(obj, ks, loc) ==
    IF ks = <<>> THEN obj
    ELSE AssignAll(SetAttr(obj, Attributes[Head(ks)], loc[Artifacts[Head(ks)]]),
                   Tail(ks), loc)

\* lines 100-106
Assign ==
    /\ ipc = "assign"
    /\ self' = AssignAll(self, Exposed(args.end), locals)
    /\ events' = events \o [n \in 1..Len(Exposed(args.end)) |->
                               <<"set", Attributes[Exposed(args.end)[n]]>>]
    /\ ipc' = "done"
    /\ UNCHANGED <<calls, config, args, locals, files, console>>
    /\ UNCHANGED <<zpc, method, voids, vcuts, vvols, vrads, vcens, vaxes, zvoid, step,
                   outcome>>
    /\ UNCHANGED hvars

NextConstruct ==
    Validate \/ Visualize \/ Settings \/ (\E k \in 1..4 : Stage(k)) \/ Assign

SpecConstruct == InitConstruct /\ [][NextConstruct]_vars

----------------------------------------------------------------------------
(* Properties of Zobov.sortVoids *)

\* sortVoids ran to its end and set its outputs on the instance
Stored == zpc = "returned" /\ HasAttr(self, "zvoid")

Zones == 0..(Len(zvoid) - 1)

\* the emitted candidates (0-based) that hold zone z
Holding(z) == { c \in 0..(Len(voids) - 1) : InSeq(voids[c + 1], z) }

\* size(candidate[c]): its number of zones
SizeOf(c) == Len(voids[c + 1])

\* C7: during and after the pass over the candidates, a zone that is assigned
\* has size(candidate[primary]) <= size(candidate[secondary]); after
\* sortVoids a zone is (-1,-1) iff no emitted candidate holds it, else its
\* primary is a smallest and its secondary a largest of the emitted
\* candidates that hold it.
C7_ZoneVoidMap ==
    /\ (zpc = "zvoid" \/ Stored) =>
           \A z \in Zones :
               zvoid[z + 1][1] /= -1 =>
                   /\ zvoid[z + 1][2] /= -1
                   /\ SizeOf(zvoid[z + 1][1]) <= SizeOf(zvoid[z + 1][2])
    /\ Stored =>
           \A z \in Zones :
               LET e == self.zvoid[z + 1]
               IN  IF Holding(z) = {}
                   THEN e = <<-1, -1>>
                   ELSE /\ e[1] \in Holding(z)
                        /\ e[2] \in Holding(z)
                        /\ \A c \in Holding(z) :
                               SizeOf(e[1]) <= SizeOf(c) /\ SizeOf(c) <= SizeOf(e[2])

\* C7 witness: after sortVoids, a zone held by three emitted candidates whose
\* primary is strictly smaller than its secondary, and a zone held by none.
C7_Witness ==
    /\ Stored
    /\ \E z \in Zones :
           /\ Cardinality(Holding(z)) >= 3
           /\ SizeOf(self.zvoid[z + 1][1]) < SizeOf(self.zvoid[z + 1][2])
    /\ \E z \in Zones : self.zvoid[z + 1] = <<-1, -1>>

\* the radius (cubed) of the candidate that method 4 builds from zone z
ZoneRadius(z) == 3 * SumSeq([n \in 1..Len(self.zones.zcell[z + 1]) |->
                       self.tesselation.volumes[self.zones.zcell[z + 1][n] + 1]])

AllZones == 0..(Len(self.zones.zcell) - 1)

\* x is the k-th smallest of the zone radii
IsKthRadius(x, k) ==
    /\ Cardinality({ z \in AllZones : ZoneRadius(z) < x }) < k
    /\ k <= Cardinality({ z \in AllZones : ZoneRadius(z) <= x })

\* self.minrad is the median of the radii of all the candidates of method 4
MinradIsMedian ==
    /\ IsKthRadius(self.minrad[1], (Cardinality(AllZones) + 1) \div 2)
    /\ IsKthRadius(self.minrad[2], (Cardinality(AllZones) \div 2) + 1)

\* r = t for a radius of cube c and a threshold t = (a^(1/3) + b^(1/3))/2
RadiusEquals(c, t) ==
    /\ 8 * c - t[1] - t[2] >= 0
    /\ Cube(8 * c - t[1] - t[2]) = 216 * t[1] * t[2] * c

\* zone z is emitted by method 4: its candidate is among the final voids
Emitted(z) == \E n \in 1..Len(voids) : voids[n] = <<z>>

C9_InvalidMethodIsError ==
    (zpc = "returned" /\ method \notin {0, 1, 2, 4} /\ HasAttr(self, "prevoids")) =>
        outcome.value = "error"

\* the number of merge levels of hierarchy entry n that method 0 keeps
KeptLevels(n) ==
    LET e == self.prevoids[n]
        S == SumSeq(self.tesselation.volumes)
        N == Cardinality({ c \in 1..Len(self.tesselation.volumes) :
                             self.tesselation.volumes[c] > 0 })
    IN  { j \in 0..(Len(e.voids) - 1) :
            j = 0 \/ \A k \in 1..j : e.ovols[k + 1] * N * dc[1] >= S * dc[2] }

\* C10: with method 0 the candidate of every hierarchy entry is a prefix of
\* the entry's merge levels: level 0 always, level j >= 1 iff no level 1..j has
\* a volume below mean_cell_volume/dc.
C10_VidePrefix ==
    (zpc = "selected" /\ method = 0) =>
        /\ Len(voids) = Len(self.prevoids)
        /\ \A n \in 1..Len(self.prevoids) :
               /\ 0 \in KeptLevels(n)
               /\ KeptLevels(n) = 0..(Cardinality(KeptLevels(n)) - 1)
               /\ voids[n] = Concat(SubSeq(self.prevoids[n].voids, 1,
                                           Cardinality(KeptLevels(n))))

\* C10 witness: an entry whose level 0 is below the bound and kept, whose
\* level 1 is below the bound, and whose level 2 is above it and not kept.
C10_Witness ==
    /\ zpc = "selected"
    /\ method = 0
    /\ \E n \in 1..Len(self.prevoids) :
           LET e == self.prevoids[n]
               mv == minvol(self.tesselation.volumes)
           IN  /\ Len(e.voids) >= 3
               /\ BelowMinvol(e.ovols[1], mv)
               /\ BelowMinvol(e.ovols[2], mv)
               /\ ~BelowMinvol(e.ovols[3], mv)
               /\ voids[n] = e.voids[1]

\* the member cells of the emitted candidate n (1-based)
MemberCells(n) == CellsOf(voids[n], self.zones.zcell)

\* C13 as stated: after sortVoids with method 0, 1, 2 or 4 the outputs are
\* index-aligned: vrads[n], vcens[n] and vaxes[n] all derive from the member
\* cells of the emitted candidate n, the one zvoid entries equal to n refer to.
C13_OutputsAligned ==
    (Stored /\ method \in {0, 1, 2, 4}) =>
        /\ Len(self.vrads) = Len(voids)
        /\ Len(self.vcens) = Len(voids)
        /\ Len(self.vaxes) = Len(voids)
        /\ \A n \in 1..Len(voids) :
               /\ self.vrads[n] = RadiusCubed(VolumeOf(MemberCells(n),
                                                       self.tesselation.volumes))
               /\ self.vcens[n] = wCen(MemberCells(n))
               /\ self.vaxes[n] = getSMA(self.vrads[n], MemberCells(n))

\* C14 as stated: in any sequence of sortVoids calls on one instance, the
\* threshold a call with method 0, 1 or 2 filters the radii against is the
\* configured radius_min, whatever the earlier calls were.
C14_ThresholdIsConfigured ==
    (zpc \in {"selected", "zvoid"} /\ method \in {0, 1, 2}) =>
        self.minrad = ConfiguredMinrad(config.radius_min)

----------------------------------------------------------------------------
(* Properties of Zobov.__init__ *)

\* how many times the event <<kind, name>> happened
Count(kind, name) ==
    Cardinality({ n \in 1..Len(events) : events[n] = <<kind, name>> })

\* C11: for a valid stage pair, no stage before start is rebuilt; each of the
\* four artifacts is loaded at most once, built at most once and never both,
\* loaded iff start reaches its stage; every attribute is assigned after its
\* artifact was loaded or built, and the attributes exposed at the end are
\* catalog always, tesselation iff end>0, zones iff end>1, prevoids iff end>2.
C11_LoadedOrBuiltOnce ==
    (ipc /= "idle" /\ ValidStages(args.start, args.end)) =>
        /\ \A k \in 1..4 :
               /\ Count("load", Artifacts[k]) + Count("build", Artifacts[k]) <= 1
               /\ Count("build", Artifacts[k]) > 0 => args.start < k
               /\ Count("load", Artifacts[k]) > 0 => args.start >= k
               /\ ipc \in {"assign", "done"} =>
                      (Count("load", Artifacts[k]) = 1 <=> args.start >= k)
        /\ \A n \in 1..Len(events) :
               events[n][1] = "set" =>
                   \E k \in 1..4 :
                       /\ events[n][2] = Attributes[k]
                       /\ \E j \in 1..(n - 1) :
                              events[j] \in { <<"load", Artifacts[k]>>,
                                              <<"build", Artifacts[k]>> }
        /\ ipc = "done" =>
               \A k \in 1..4 :
                   /\ HasAttr(self, Attributes[k]) <=> (k = 1 \/ args.end > k - 2)
                   /\ HasAttr(self, Attributes[k]) =>
                          /\ Count("set", Attributes[k]) = 1
                          /\ self[Attributes[k]] = locals[Artifacts[k]]

\* C11 witness: a finished construction that loaded the catalog and the
\* tesselation, built the zones and the voids, and exposed all four.
C11_Witness ==
    /\ ipc = "done"
    /\ args.start = 2
    /\ args.end = 4
    /\ Count("load", "ctlg") = 1
    /\ Count("load", "tess") = 1
    /\ Count("build", "zones") = 1
    /\ Count("build", "voids") = 1
    /\ \A k \in 1..4 : HasAttr(self, Attributes[k])

\* the call has a configuration error: an invalid stage range, or
\* visualization requested together with periodic boundaries
ConfigurationError ==
    \/ ~ValidStages(args.start, args.end)
    \/ args.visualize /\ args.periodic

\* C12 as stated: a construction with a configuration error loads or builds
\* no stage, writes no checkpoint, sets no artifact on the instance, and has
\* reported the error by the time it ends.
C12_ConfigErrorAborts ==
    (ipc /= "idle" /\ ConfigurationError) =>
        /\ events = <<>>
        /\ \A k \in 1..4 : ~HasAttr(self, Attributes[k])
        /\ ipc = "done" => console /= <<>>

====
